---- MODULE Spec2Model ----
(***************************************************************************)
(* Model of radical_kmst_network_optimizer.py: milp_kmst, the rooted       *)
(* k-MST solved as a directed single-commodity-flow MIP over a pruned      *)
(* candidate graph.                                                        *)
(*                                                                         *)
(* One call of milp_kmst is a run of the state machine                     *)
(*   Guard -> BuildGraph -> Encode -> Optimize -> Decode.                  *)
(* The MIP solver (model.optimize) is an external black box: Optimize      *)
(* picks, nondeterministically, any outcome that solver may report for    *)
(* the model that Encode built.                                            *)
(*                                                                         *)
(* Numbers.  Coordinates are integers and every point set used below has   *)
(* integer pairwise distances, so np.hypot is exact on it and the float    *)
(* weights are the integers computed here.  Binary variables take the      *)
(* values 0 and 1.  The flow variables are continuous in the code; here    *)
(* they range over the integers 0..k-1.  For fixed arc and node values     *)
(* the flow constraints are a network-flow system with integer supplies    *)
(* and capacities, which has a real solution iff it has an integer one,    *)
(* and the decoder reads only the arc and node values.                     *)
(***************************************************************************)
EXTENDS Integers, Sequences, FiniteSets, TLC

VARIABLES
    coords,          \* argument: candidate positions, a sequence
    c_coords,        \* argument: root position
    k_arg,           \* argument: k as passed by the caller
    mip_gap,         \* argument: MIPGap, in percent
    pc,              \* position in milp_kmst
    k,               \* the local k (reassigned by the clamp)
    edges,           \* the pruned edge list: sequence of <<node1, node2, weight>>
    modelCreated,    \* gp.Model(...) has been called
    numVars,         \* variables added to the model
    numConstrs,      \* constraints added to the model
    optimizeCalls,   \* number of model.optimize() calls
    status,          \* solver status after optimize
    SolCount,        \* model.SolCount
    X,               \* the incumbent's variable values (.X), when there is one
    xRead,           \* some .X attribute has been read
    selected_nodes,  \* returned list 1
    selected_edges   \* returned list 2

vars == <<coords, c_coords, k_arg, mip_gap, pc, k, edges, modelCreated, numVars,
          numConstrs, optimizeCalls, status, SolCount, X, xRead,
          selected_nodes, selected_edges>>

(***************************************************************************)
(* Bounds of the model and program constants                               *)
(***************************************************************************)
MaxN == 2          \* generic inputs: at most this many candidates
MaxK == 4          \* generic inputs: k in 1..MaxK
NodeCap == 1500    \* the candidate cap of the entry guard

\* The root label "C".  Candidates are labelled 0..num_nodes-1; TLC cannot
\* hold a string and integers in one set, so the root is an integer that
\* is no candidate index.
root == -1

NoValue == <<"none">>

(***************************************************************************)
(* Input domains                                                           *)
(***************************************************************************)
\* Positions with integer pairwise distances (3-4-5, 5-12-13, 9-12-15 ...).
Points == {<<5, 0>>, <<9, 0>>, <<-5, 0>>, <<0, 12>>}
RootPoints == {<<0, 0>>, <<9, 0>>}
MipGaps == {0, 50}

RECURSIVE SeqsUpTo(_, _)
SeqsUpTo(S, n) ==
    IF n = 0 THEN {<<>>}
    ELSE LET shorter == SeqsUpTo(S, n - 1)
         IN  shorter \cup {Append(s, x) : s \in {t \in shorter : Len(t) = n - 1}, x \in S}

GenericInputs ==
    {[coords |-> s, c_coords |-> r, k |-> kk, mip_gap |-> g] :
        s \in SeqsUpTo(Points, MaxN), r \in RootPoints, kk \in 1..MaxK, g \in MipGaps}

\* Larger candidate layouts, each with its root: three and four candidates,
\* with pruned pairs, with a complete graph, and with coinciding points.
Layouts ==
    { [coords |-> << <<5, 0>>, <<9, 0>>, <<-5, 0>> >>, c_coords |-> <<0, 0>>],
      [coords |-> << <<5, 0>>, <<-5, 0>>, <<0, 12>> >>, c_coords |-> <<9, 0>>],
      [coords |-> << <<5, 0>>, <<5, 0>>, <<0, 0>> >>, c_coords |-> <<0, 0>>],
      [coords |-> << <<5, 0>>, <<9, 0>>, <<16, 0>>, <<-5, 0>> >>, c_coords |-> <<0, 0>>],
      [coords |-> << <<5, 0>>, <<-5, 0>>, <<0, 12>>, <<0, 0>> >>, c_coords |-> <<9, 0>>] }

LayoutInputs ==
    {[coords |-> l.coords, c_coords |-> l.c_coords, k |-> kk, mip_gap |-> g] :
        l \in Layouts, kk \in (1..MaxK) \cup {10}, g \in MipGaps}

\* The degenerate scenario of the specification's section 8.
ScenarioInputs ==
    { [coords |-> <<<<10, 0>>>>, c_coords |-> <<0, 0>>, k |-> 2, mip_gap |-> 0] }

\* More candidates than the cap: the guard reads only the length.
OversizeInputs ==
    {[coords |-> [i \in 1..(NodeCap + 1) |-> <<0, 0>>], c_coords |-> <<0, 0>>,
      k |-> kk, mip_gap |-> g] : kk \in 1..MaxK, g \in MipGaps}

Inputs == GenericInputs \cup LayoutInputs \cup ScenarioInputs \cup OversizeInputs

\* Malformed inputs: a point with one coordinate or with three among
\* two-dimensional ones.
BadPoints == {<<0>>, <<0, 0, 0>>}
MalformedInputs ==
    {[coords |-> s, c_coords |-> r, k |-> kk, mip_gap |-> 0] :
        s \in {t \in SeqsUpTo(Points \cup BadPoints, 2) :
                 \E i \in 1..Len(t) : t[i] \in BadPoints},
        r \in RootPoints, kk \in 1..2}

(***************************************************************************)
(* Distance oracle                                                         *)
(***************************************************************************)
Isqrt(n) == CHOOSE r \in 0..n : r * r <= n /\ n < (r + 1) * (r + 1)

\* numpy's a - b on one-dimensional arrays: equal lengths, or a length-1
\* operand is broadcast; anything else raises ValueError.
Broadcasts(a, b) == Len(a) = Len(b) \/ Len(a) = 1 \/ Len(b) = 1

Sub(a, b) ==
    LET m == IF Len(a) >= Len(b) THEN Len(a) ELSE Len(b)
    IN  [i \in 1..m |-> a[IF Len(a) = 1 THEN 1 ELSE i] - b[IF Len(b) = 1 THEN 1 ELSE i]]

\* np.hypot(*(a - b)) takes exactly two numbers; one raises TypeError
\* (missing argument), three raise TypeError (the third is the out array).
_euclidRaises(a, b) == ~Broadcasts(a, b) \/ Len(Sub(a, b)) # 2

_euclid(a, b) ==
    LET d == Sub(a, b) IN Isqrt(d[1] * d[1] + d[2] * d[2])

\* Every distance taken between the points of a call is an integer, so
\* Isqrt returns what np.hypot returns.
ExactDistances ==
    \A p, q \in {c_coords} \cup {coords[i] : i \in 1..Len(coords)} :
        ~_euclidRaises(p, q) =>
            LET d == Sub(p, q)
            IN  _euclid(p, q) * _euclid(p, q) = d[1] * d[1] + d[2] * d[2]

(***************************************************************************)
(* Entry guard and clamp                                                   *)
(***************************************************************************)
num_nodes == Len(coords)

\* Mutant of Rejected: the empty candidate list is not turned away.
RejectedCapOnly(n) == n > NodeCap

Rejected(n) == n = 0 \/ n > NodeCap

\* Mutant of ClampK: the comparison is reversed.
ClampKReversed(kk, n) == IF kk < n THEN n ELSE kk

ClampK(kk, n) == IF kk > n THEN n ELSE kk

(***************************************************************************)
(* Candidate graph builder                                                 *)
(***************************************************************************)
nodes == <<root>> \o [i \in 1..num_nodes |-> i - 1]

node_positions(node) == IF node = root THEN c_coords ELSE coords[node + 1]

distances_to_root(node) == _euclid(node_positions(node), node_positions(root))

Min(a, b) == IF a <= b THEN a ELSE b

PyMax(a, b) == IF b > a THEN b ELSE a

\* Mutant of KeepEdge: the smaller of the two distances to the root.
KeepEdgeMin(node1, node2, edge_weight) ==
    \/ node1 = root
    \/ node2 = root
    \/ edge_weight <= Min(distances_to_root(node1), distances_to_root(node2))

KeepEdge(node1, node2, edge_weight) ==
    \/ node1 = root
    \/ node2 = root
    \/ edge_weight <= PyMax(distances_to_root(node1), distances_to_root(node2))

\* The index pairs (i, j), i < j, of the nested loops, in loop order.
LoopPairs ==
    LET m == Len(nodes)
        all == [t \in 1..(m * m) |-> <<((t - 1) \div m) + 1, ((t - 1) % m) + 1>>]
    IN  SelectSeq(all, LAMBDA p : p[1] < p[2])

WeightedPair(p) ==
    <<nodes[p[1]], nodes[p[2]],
      _euclid(node_positions(nodes[p[1]]), node_positions(nodes[p[2]]))>>

AllEdges == [t \in 1..Len(LoopPairs) |-> WeightedPair(LoopPairs[t])]

PrunedEdges == SelectSeq(AllEdges, LAMBDA e : KeepEdge(e[1], e[2], e[3]))

GraphRaises ==
    \/ \E i \in 1..Len(nodes) :
          _euclidRaises(node_positions(nodes[i]), node_positions(root))
    \/ \E i, j \in 1..Len(nodes) :
          i < j /\ _euclidRaises(node_positions(nodes[i]), node_positions(nodes[j]))

(***************************************************************************)
(* Actions                                                                 *)
(***************************************************************************)
StartWith(inp) ==
    /\ coords = inp.coords
    /\ c_coords = inp.c_coords
    /\ k_arg = inp.k
    /\ k = inp.k
    /\ mip_gap = inp.mip_gap

InitLocals ==
    /\ pc = "start"
    /\ edges = <<>>
    /\ modelCreated = FALSE
    /\ numVars = 0
    /\ numConstrs = 0
    /\ optimizeCalls = 0
    /\ status = "none"
    /\ SolCount = 0
    /\ X = NoValue
    /\ xRead = FALSE
    /\ selected_nodes = NoValue
    /\ selected_edges = NoValue

Init ==
    /\ \E inp \in Inputs : StartWith(inp)
    /\ InitLocals

Guard ==
    /\ pc = "start"
    /\ IF Rejected(num_nodes)
       THEN /\ pc' = "done"
            /\ selected_nodes' = <<>>
            /\ selected_edges' = <<>>
            /\ k' = k
       ELSE /\ pc' = "graph"
            /\ k' = ClampK(k, num_nodes)
            /\ UNCHANGED <<selected_nodes, selected_edges>>
    /\ UNCHANGED <<coords, c_coords, k_arg, mip_gap, edges, modelCreated, numVars,
                   numConstrs, optimizeCalls, status, SolCount, X, xRead>>

BuildGraph ==
    /\ pc = "graph"
    /\ IF GraphRaises
       THEN /\ pc' = "raised"
            /\ edges' = edges
       ELSE /\ pc' = "encode"
            /\ edges' = PrunedEdges
    /\ UNCHANGED <<coords, c_coords, k_arg, mip_gap, k, modelCreated, numVars,
                   numConstrs, optimizeCalls, status, SolCount, X, xRead,
                   selected_nodes, selected_edges>>

(***************************************************************************)
(* Model encoder: variables, constraints, objective                        *)
(***************************************************************************)
EdgeIdx == 1..Len(edges)

Fwd(i) == <<edges[i][1], edges[i][2]>>
Bwd(i) == <<edges[i][2], edges[i][1]>>

\* The keys of arc_variables and of flow_variables (DOMAIN av, DOMAIN fv).
Arcs == {Fwd(i) : i \in EdgeIdx} \cup {Bwd(i) : i \in EdgeIdx}

\* The keys of node_variables.
NodeKeys == {nodes[i] : i \in 1..Len(nodes)}

Candidates == 0..(num_nodes - 1)

RECURSIVE SumFn(_, _)
SumFn(f, S) ==
    IF S = {} THEN 0
    ELSE LET x == CHOOSE y \in S : TRUE IN f[x] + SumFn(f, S \ {x})

\* one_dir_*: at most one orientation per edge
OneDir(av) == \A i \in EdgeIdx : av[Fwd(i)] + av[Bwd(i)] <= 1

\* flow_cap_*: flow only on a selected arc
FlowCap(fv, av) == \A a \in DOMAIN fv : fv[a] <= (k - 1) * av[a]

\* root_selected
RootSelected(nv) == nv[root] = 1

\* k_nodes
KNodes(nv) == SumFn(nv, Candidates) = k - 1

\* Mutant of KEdges: k arcs instead of k - 1.
KEdgesOffByOne(av) == SumFn(av, DOMAIN av) = k

\* k_edges
KEdges(av) == SumFn(av, DOMAIN av) = k - 1

\* arc_node1_*, arc_node2_*: an arc needs both endpoints of its edge
ArcNode(av, nv) ==
    \A i \in EdgeIdx : \A arc \in {Fwd(i), Bwd(i)} :
        av[arc] <= nv[edges[i][1]] /\ av[arc] <= nv[edges[i][2]]

\* root_flow: net outflow of the root is k - 1
RootFlow(fv) ==
    SumFn(fv, {a \in DOMAIN fv : a[1] = root /\ a[2] # root})
      - SumFn(fv, {a \in DOMAIN fv : a[2] = root /\ a[1] # root}) = k - 1

\* Mutant of FlowCons: the conservation constraints are not added.
FlowConsOmitted(fv, nv) == TRUE

\* flow_cons_*: every candidate consumes its own selection value
FlowCons(fv, nv) ==
    \A node2 \in Candidates :
        SumFn(fv, {a \in DOMAIN fv : a[2] = node2 /\ a[1] # node2})
          - SumFn(fv, {a \in DOMAIN fv : a[1] = node2 /\ a[2] # node2}) = nv[node2]

Feasible(nv, av, fv) ==
    /\ OneDir(av)
    /\ FlowCap(fv, av)
    /\ RootSelected(nv)
    /\ KNodes(nv)
    /\ KEdges(av)
    /\ ArcNode(av, nv)
    /\ RootFlow(fv)
    /\ FlowCons(fv, nv)

RECURSIVE ObjectiveUpTo(_, _)
ObjectiveUpTo(av, i) ==
    IF i = 0 THEN 0
    ELSE edges[i][3] * (av[Fwd(i)] + av[Bwd(i)]) + ObjectiveUpTo(av, i - 1)

\* Mutant of Objective: only the forward arc of an edge is priced.
RECURSIVE ObjectiveForwardUpTo(_, _)
ObjectiveForwardUpTo(av, i) ==
    IF i = 0 THEN 0
    ELSE edges[i][3] * av[Fwd(i)] + ObjectiveForwardUpTo(av, i - 1)

ObjectiveForwardOnly(av) == ObjectiveForwardUpTo(av, Len(edges))

Objective(av) == ObjectiveUpTo(av, Len(edges))

(***************************************************************************)
(* The solver, a black box.  AllAssignments is the set of value            *)
(* assignments within the variables' types and bounds that satisfy every   *)
(* constraint.  It is enumerated in stages so that TLC can compute it:     *)
(* node values first, then arc values, then flows.  A stage leaves out     *)
(* only values that a constraint local to one edge or one arc excludes     *)
(* (both orientations of an edge, an arc at an unselected endpoint, flow   *)
(* on an unselected arc); Feasible is then required of every assignment,    *)
(* after its two flow constraints, which reject most candidates.           *)
(***************************************************************************)
NodeChoices == {nv \in [NodeKeys -> {0, 1}] : RootSelected(nv) /\ KNodes(nv)}

ArcsOf(o) ==
    [a \in Arcs |->
        IF \E i \in DOMAIN o : (o[i] = 1 /\ a = Fwd(i)) \/ (o[i] = 2 /\ a = Bwd(i))
        THEN 1 ELSE 0]

ArcChoices(nv) ==
    LET live == {i \in EdgeIdx : nv[edges[i][1]] = 1 /\ nv[edges[i][2]] = 1}
    IN  {av \in {ArcsOf(o) : o \in [live -> {0, 1, 2}]} : KEdges(av)}

FlowChoices(av) ==
    LET on == {a \in DOMAIN av : av[a] = 1}
    IN  {[a \in DOMAIN av |-> IF a \in on THEN g[a] ELSE 0] : g \in [on -> 0..(k - 1)]}

AllAssignments ==
    UNION { UNION { { [node |-> nv, arc |-> av, flow |-> fv] :
                        fv \in {f \in FlowChoices(av) :
                                  RootFlow(f) /\ FlowCons(f, nv) /\ Feasible(nv, av, f)} } :
                    av \in ArcChoices(nv) } :
            nv \in NodeChoices }

\* The assignments within the variables' types and bounds that satisfy
\* Feasible, enumerated without stages; StagedEnumerationComplete compares
\* the two on the models small enough for it.
PlainAssignments ==
    {x \in [node : [NodeKeys -> {0, 1}], arc : [Arcs -> {0, 1}],
            flow : [Arcs -> 0..(k - 1)]] : Feasible(x.node, x.arc, x.flow)}

StagedEnumerationComplete ==
    pc = "solve" /\ Len(edges) <= 3 => AllAssignments = PlainAssignments

\* Gurobi stops with status optimal once the relative gap between the
\* incumbent and its bound is at most MIPGap; the bound never exceeds the
\* true optimum.  The time limit may expire at any moment, with an incumbent
\* (status "feasible") or without one (status "no-solution"), so the
\* outcomes below cover every value of time_limit.
WithinGap(obj, best) == (obj - best) * 100 <= mip_gap * obj

MinObjective(S) ==
    LET objs == {Objective(a.arc) : a \in S}
    IN  CHOOSE m \in objs : \A o \in objs : m <= o

Statuses == {"optimal", "feasible", "infeasible", "no-solution"}

(***************************************************************************)
(* Solution decoder                                                        *)
(***************************************************************************)
\* str(node) as a sequence of character codes: "C", or the decimal digits.
RECURSIVE Digits(_)
Digits(n) == IF n < 10 THEN <<48 + n>> ELSE Append(Digits(n \div 10), 48 + (n % 10))

Str(node) == IF node = root THEN <<67>> ELSE Digits(node)

RECURSIVE SeqLess(_, _)
SeqLess(s, t) ==
    IF t = <<>> THEN FALSE
    ELSE IF s = <<>> THEN TRUE
    ELSE IF s[1] # t[1] THEN s[1] < t[1]
    ELSE SeqLess(Tail(s), Tail(t))

\* tuple(sorted((node1, node2), key=str)); sorted is stable
EdgeKey(node1, node2) ==
    IF SeqLess(Str(node2), Str(node1)) THEN <<node2, node1>> ELSE <<node1, node2>>

\* x > 0.5
Above(x) == 2 * x > 1

\* Mutant of ArcUsed: the reverse arc is not looked at.
ArcUsedForwardOnly(x, i) == Above(x.arc[Fwd(i)])

ArcUsed(x, i) == Above(x.arc[Fwd(i)]) \/ Above(x.arc[Bwd(i)])

DecodeNodes(x) ==
    <<root>> \o SelectSeq([i \in 1..num_nodes |-> i - 1], LAMBDA n : Above(x.node[n]))

RECURSIVE DecodeEdgesFrom(_, _, _, _)
DecodeEdgesFrom(x, i, out, seen_edges) ==
    IF i > Len(edges) THEN out
    ELSE LET edge_key == EdgeKey(edges[i][1], edges[i][2])
         IN  IF ArcUsed(x, i) /\ edge_key \notin seen_edges
             THEN DecodeEdgesFrom(x, i + 1, Append(out, edges[i]),
                                  seen_edges \cup {edge_key})
             ELSE DecodeEdgesFrom(x, i + 1, out, seen_edges)

DecodeEdges(x) == DecodeEdgesFrom(x, 1, <<>>, {})

Encode ==
    /\ pc = "encode"
    /\ pc' = "solve"
    /\ modelCreated' = TRUE
    /\ numVars' = 4 * Len(edges) + Len(nodes)
    /\ numConstrs' = 3 * Len(edges) + 1 + 2 + 4 * Len(edges) + 1 + num_nodes
    /\ UNCHANGED <<coords, c_coords, k_arg, mip_gap, k, edges, optimizeCalls,
                   status, SolCount, X, xRead, selected_nodes, selected_edges>>

Optimize ==
    /\ pc = "solve"
    /\ pc' = "decode"
    /\ optimizeCalls' = optimizeCalls + 1
    /\ \E all \in {AllAssignments} :
       \E best \in {IF all = {} THEN 0 ELSE MinObjective(all)} :
       \E st \in Statuses :
          /\ status' = st
          /\ IF st \in {"optimal", "feasible"}
             THEN /\ SolCount' = 1
                  /\ \E x \in all :
                        /\ st = "optimal" => WithinGap(Objective(x.arc), best)
                        /\ X' = x
             ELSE /\ st = "infeasible" => all = {}
                  /\ SolCount' = 0
                  /\ X' = NoValue
    /\ UNCHANGED <<coords, c_coords, k_arg, mip_gap, k, edges, modelCreated,
                   numVars, numConstrs, xRead, selected_nodes, selected_edges>>

\* Mutant of NoIncumbent: the status is tested instead of the solution count.
NoIncumbentByStatus == status = "infeasible"

\* if model.SolCount == 0
NoIncumbent == SolCount = 0

\* Reading .X of a variable when the solver holds no solution raises
\* (gurobipy's AttributeError).
Decode ==
    /\ pc = "decode"
    /\ IF NoIncumbent
       THEN /\ pc' = "done"
            /\ selected_nodes' = <<root>>
            /\ selected_edges' = <<>>
            /\ xRead' = xRead
       ELSE IF SolCount = 0
       THEN /\ pc' = "raised"
            /\ xRead' = TRUE
            /\ UNCHANGED <<selected_nodes, selected_edges>>
       ELSE /\ pc' = "done"
            /\ selected_nodes' = DecodeNodes(X)
            /\ selected_edges' = DecodeEdges(X)
            /\ xRead' = TRUE
    /\ UNCHANGED <<coords, c_coords, k_arg, mip_gap, k, edges, modelCreated,
                   numVars, numConstrs, optimizeCalls, status, SolCount, X>>

Next == Guard \/ BuildGraph \/ Encode \/ Optimize \/ Decode

Spec == Init /\ [][Next]_vars

\* The same program called with malformed coordinates.
InitMalformed ==
    /\ \E inp \in MalformedInputs : StartWith(inp)
    /\ InitLocals

SpecMalformed == InitMalformed /\ [][Next]_vars

(***************************************************************************)
(* Reference definitions used by the properties: graphs and trees by       *)
(* brute force, independent of the flow formulation.                       *)
(***************************************************************************)
Range(seq) == {seq[i] : i \in 1..Len(seq)}

Done == pc = "done"

Solved == pc = "done" /\ optimizeCalls = 1 /\ SolCount > 0

\* The nodes connected to a node of R by the unordered pairs in ps.
RECURSIVE Closure(_, _)
Closure(R, ps) ==
    LET more == R \cup {v \in UNION ps : \E q \in ps : v \in q /\ q \cap R # {}}
    IN  IF more = R THEN R ELSE Closure(more, ps)

PairsOf(E, T) == {{E[i][1], E[i][2]} : i \in T}

\* The index sets of the trees in edge list E that contain the root and
\* exactly kk - 1 candidates: kk - 1 edges that connect kk nodes to the root.
TreesIn(E, kk) ==
    {T \in SUBSET (1..Len(E)) :
        /\ Cardinality(T) = kk - 1
        /\ LET reach == Closure({root}, PairsOf(E, T))
           IN  /\ Cardinality(reach) = kk
               /\ UNION PairsOf(E, T) \subseteq reach}

RECURSIVE WeightOf(_, _)
WeightOf(E, T) ==
    IF T = {} THEN 0
    ELSE LET i == CHOOSE j \in T : TRUE IN E[i][3] + WeightOf(E, T \ {i})

\* The minimum total weight of such a tree, -1 when there is none.
MinTreeWeight(E, kk) ==
    LET ws == {WeightOf(E, T) : T \in TreesIn(E, kk)}
    IN  IF ws = {} THEN -1 ELSE CHOOSE m \in ws : \A w \in ws : m <= w

TotalWeight(es) == WeightOf(es, 1..Len(es))

(***************************************************************************)
(* C1.  The k used to build the model is min(k, n + 1); so a request of    *)
(* k >= n + 1 selects every candidate and returns n edges, and one         *)
(* candidate with k = 2 returns the root, the candidate and their edge.    *)
(* This is the claim as stated; the code clamps to n.                      *)
(***************************************************************************)
C1_ClampToCandidatesPlusRoot ==
    /\ pc \in {"graph", "encode", "solve", "decode", "done"} /\ ~Rejected(num_nodes)
          => k = Min(k_arg, num_nodes + 1)
    /\ Solved /\ k_arg >= num_nodes + 1
          => Len(selected_nodes) = num_nodes + 1 /\ Len(selected_edges) = num_nodes

(***************************************************************************)
(* C2 as stated.  With k = 1 the result is ([root], []) whatever the       *)
(* candidate list is, an empty one included.                               *)
(***************************************************************************)
C2_RootOnlyForAnyCandidates ==
    Done /\ k_arg = 1 => selected_nodes = <<root>> /\ selected_edges = <<>>

(***************************************************************************)
(* C2 amended.  With k = 1 and between 1 and 1500 candidates the result    *)
(* is ([root], []), whatever the solver reports.                           *)
(***************************************************************************)
C2_RootOnlyWhenSolved ==
    Done /\ k_arg = 1 /\ num_nodes >= 1 /\ num_nodes <= NodeCap
        => selected_nodes = <<root>> /\ selected_edges = <<>>

C2_Witness ==
    /\ Solved /\ k_arg = 1 /\ num_nodes >= 2
    /\ selected_nodes = <<root>> /\ selected_edges = <<>>

(***************************************************************************)
(* C3.  With 0 or more than 1500 candidates the call returns ([], [])      *)
(* without building a model or calling the solver and without raising;     *)
(* with 1..1500 candidates the solver is called exactly once.              *)
(***************************************************************************)
C3_GuardAndSingleSolve ==
    /\ optimizeCalls <= 1
    /\ pc # "raised"
    /\ num_nodes = 0 \/ num_nodes > NodeCap
          => /\ ~modelCreated /\ numVars = 0 /\ numConstrs = 0
             /\ optimizeCalls = 0
             /\ pc \in {"start", "done"}
             /\ Done => selected_nodes = <<>> /\ selected_edges = <<>>
    /\ Done /\ num_nodes >= 1 /\ num_nodes <= NodeCap => optimizeCalls = 1

C3_Witness ==
    /\ Done /\ num_nodes > NodeCap
    /\ selected_nodes = <<>> /\ selected_edges = <<>> /\ optimizeCalls = 0

(***************************************************************************)
(* C4.  Connectivity: for every assignment that satisfies the constraints  *)
(* the decoded edges form one tree on exactly the decoded nodes: no        *)
(* cycle, every endpoint selected, every selected node reachable from the  *)
(* root through selected edges.                                            *)
(***************************************************************************)
SelIdx == 1..Len(selected_edges)

C4_NoCycle ==
    \A j \in SelIdx :
        selected_edges[j][2] \notin
            Closure({selected_edges[j][1]}, PairsOf(selected_edges, SelIdx \ {j}))

C4_EndpointsSelected ==
    \A j \in SelIdx :
        selected_edges[j][1] \in Range(selected_nodes)
          /\ selected_edges[j][2] \in Range(selected_nodes)

C4_AllReachable ==
    Range(selected_nodes) \subseteq Closure({root}, PairsOf(selected_edges, SelIdx))

C4_Connectivity ==
    Solved => C4_NoCycle /\ C4_EndpointsSelected /\ C4_AllReachable

C4_Witness ==
    /\ Solved /\ Len(selected_edges) = 3 /\ num_nodes = 4
    /\ \E j \in SelIdx : selected_edges[j][1] # root /\ selected_edges[j][2] # root
    /\ C4_NoCycle /\ C4_AllReachable

(***************************************************************************)
(* C5.  Cardinality: when the solver returns a solution, the result has    *)
(* k' nodes, the root included, and k' - 1 edges, k' the clamped k.        *)
(***************************************************************************)
C5_Cardinality ==
    Solved => Len(selected_nodes) = k /\ Len(selected_edges) = k - 1

C5_Witness ==
    /\ Solved /\ k = 3 /\ k_arg > k
    /\ Len(selected_nodes) = 3 /\ Len(selected_edges) = 2

(***************************************************************************)
(* C6.  When the solver reports optimal with zero gap, the returned edges  *)
(* weigh the minimum over all trees of the pruned graph that hold the      *)
(* root and k' - 1 candidates; and every such tree is the decoding of a    *)
(* feasible assignment, so the model is feasible when a tree exists.       *)
(***************************************************************************)
C6_OptimalIsMinimumTree ==
    /\ Solved /\ status = "optimal" /\ mip_gap = 0
          => TotalWeight(selected_edges) = MinTreeWeight(edges, k)
    /\ pc = "solve"
          => \E all \in {AllAssignments} :
                \A T \in TreesIn(edges, k) :
                    \E x \in all : Range(DecodeEdges(x)) = {edges[i] : i \in T}

C6_Witness ==
    /\ Solved /\ status = "optimal" /\ mip_gap = 0 /\ k = 3
    /\ Len(edges) < Len(AllEdges)
    /\ \E j \in SelIdx : selected_edges[j][1] # root /\ selected_edges[j][2] # root
    /\ TotalWeight(selected_edges) = MinTreeWeight(edges, k)

(***************************************************************************)
(* C7.  When the solver ends without a solution the result is ([root], []) *)
(* for every candidate count and k; nothing raises and no variable value   *)
(* is read.                                                                *)
(***************************************************************************)
C7_NoSolutionIsRootOnly ==
    /\ optimizeCalls = 1 /\ SolCount = 0 => pc # "raised" /\ ~xRead
    /\ Done /\ optimizeCalls = 1 /\ SolCount = 0
          => selected_nodes = <<root>> /\ selected_edges = <<>>

C7_Witness ==
    /\ Done /\ optimizeCalls = 1 /\ SolCount = 0 /\ status = "no-solution"
    /\ num_nodes >= 3 /\ k >= 2
    /\ selected_nodes = <<root>> /\ selected_edges = <<>> /\ ~xRead

(***************************************************************************)
(* C8.  The returned edges are a duplicate-free selection from the pruned  *)
(* list: each is identical to exactly one entry of the list, an entry is   *)
(* returned iff one of its two arc values exceeds 0.5, and no two returned *)
(* entries have the same unordered endpoints.                              *)
(***************************************************************************)
C8_SelectionFromPrunedList ==
    Solved =>
        /\ \A j \in SelIdx :
              Cardinality({i \in 1..Len(edges) : edges[i] = selected_edges[j]}) = 1
        /\ \A i \in 1..Len(edges) :
              (\E j \in SelIdx : selected_edges[j] = edges[i])
                <=> \/ 2 * X.arc[<<edges[i][1], edges[i][2]>>] > 1
                    \/ 2 * X.arc[<<edges[i][2], edges[i][1]>>] > 1
        /\ \A i, j \in SelIdx :
              i # j => {selected_edges[i][1], selected_edges[i][2]}
                         # {selected_edges[j][1], selected_edges[j][2]}

C8_Witness ==
    /\ Solved /\ Len(selected_edges) >= 2
    /\ \E j \in SelIdx :
          /\ selected_edges[j] \in Range(edges)
          /\ X.arc[<<selected_edges[j][2], selected_edges[j][1]>>] = 1

(***************************************************************************)
(* C9.  Malformed input (coordinates of mismatched dimensionality) fails   *)
(* before the model is constructed: no model, no variable, no constraint,  *)
(* no solver call.  This is the claim as stated; the code validates        *)
(* nothing.                                                                *)
(***************************************************************************)
Malformed ==
    \/ Len(c_coords) # 2
    \/ \E i \in 1..Len(coords) : Len(coords[i]) # 2

C9_MalformedFailsBeforeModel ==
    Malformed =>
        /\ ~modelCreated /\ numVars = 0 /\ numConstrs = 0 /\ optimizeCalls = 0
        /\ pc # "done"

(***************************************************************************)
(* C10.  The graph builder lists each unordered pair of distinct nodes at  *)
(* most once and keeps it iff an endpoint is the root or its weight is at  *)
(* most the larger of the endpoints' distances to the root; and for every  *)
(* k' the minimum tree weight over the pruned list equals the minimum      *)
(* over the complete graph.                                                *)
(***************************************************************************)
Dist(a, b) == _euclid(node_positions(a), node_positions(b))

C10_PruningKeepsOptimum ==
    pc = "encode" =>
        /\ \A i, j \in 1..Len(edges) :
              i # j => {edges[i][1], edges[i][2]} # {edges[j][1], edges[j][2]}
        /\ \A e \in Range(edges) : e[1] # e[2] /\ {e[1], e[2]} \subseteq Range(nodes)
        /\ \A a, b \in Range(nodes) :
              a # b =>
                ((\E e \in Range(edges) : {e[1], e[2]} = {a, b} /\ e[3] = Dist(a, b))
                   <=> \/ a = root
                       \/ b = root
                       \/ /\ Dist(a, b) <= Dist(a, root) \/ Dist(a, b) <= Dist(b, root))
        /\ \A kk \in 1..(num_nodes + 1) :
              MinTreeWeight(edges, kk) = MinTreeWeight(AllEdges, kk)

C10_Witness ==
    /\ pc = "encode" /\ num_nodes = 4 /\ Len(edges) < Len(AllEdges)
    /\ MinTreeWeight(edges, 4) = MinTreeWeight(AllEdges, 4)
    /\ \E T \in TreesIn(AllEdges, 4) : WeightOf(AllEdges, T) > MinTreeWeight(edges, 4)
====
